---- MODULE Spec2Model ----
(***************************************************************************)
(* CoreErrorLocation (layers/core_error_location.h): the value that tracks *)
(* where a validation error occurs, its dot() descent, its Message()       *)
(* rendering, and CoreErrorLocationVuidAdapter.                            *)
(*                                                                         *)
(* Text is a sequence of one-character strings, so that separators,        *)
(* brackets and digits of a rendering can be counted and parsed.           *)
(*                                                                         *)
(* The objects live in a validation routine: it holds one Location (base), *)
(* computes up to two further Locations from it (first, second), passes    *)
(* one of them down the call chain (Enter), and finally renders the        *)
(* Location it holds (Report).                                             *)
(***************************************************************************)
EXTENDS Integers, Sequences, FiniteSets, TLC

VARIABLES
    pc,          \* "walking" | "reported"
    root,        \* the constructor arguments of the root Location
    descents,    \* history: the non-Empty dot() arguments that led from a default root to base
    base,        \* the Location the routine holds
    entry,       \* history: base as it was when the routine received it
    first,       \* <<>> or <<X>>, X the result of base.dot(firstArgs)
    firstArgs,   \* <<>> or <<[f, i]>>: the arguments of the call that made first
    second,      \* <<>> or <<Y>>, Y the result of a dot() on base or on first
    secondArgs,  \* <<>> or <<[f, i]>>
    secondFrom,  \* "none" | "base" | "first": the object second was computed from
    rendered,    \* <<>> or <<text>>: what Message() returned for base
    adapter,     \* <<>> or <<CoreErrorLocationVuidAdapter>>
    heldAt,      \* history: <<>> or <<L>>, the Location the adapter was constructed from
    view         \* <<>> or <<[call, text]>>: the last string the adapter returned

vars == <<pc, root, descents, base, entry, first, firstArgs, second, secondArgs,
          secondFrom, rendered, adapter, heldAt, view>>

(***************************************************************************)
(* Bounds and input sets.                                                  *)
(***************************************************************************)
\* longest field_path a dot() may produce in the walk with sibling descents
MaxPath == 2
\* longest field_path a dot() may produce in the single-chain walk
MaxDeepPath == 4
\* longest field_path a dot() may produce while an adapter is exercised
MaxAdapterPath == 1

\* uint32_t is narrowed to TLC's integer range: the indices are 0 .. 2^31 - 1
\* and the sentinel is still the largest value of the type.
kNoIndex == 2147483647

\* small_vector<Path, 3>: the number of inline slots of field_path
kInlineSlots == 3

ErrFuncs == {"vkCmdPipelineBarrier", "vkQueueSubmit"}
RefPages == {"Empty", "VkImageMemoryBarrier"}
Fields == {"Empty", "pImageMemoryBarriers", "srcAccessMask"}
\* sub_index values given to dot()
Indices == {42, kNoIndex}
\* index values given to the constructor
CtorIndices == {0, kNoIndex}
\* constructor arguments of the adapter's functor
FunctorArgs == {"VUID", "UNASSIGNED"}

(***************************************************************************)
(* The enumeration-to-text tables String(ErrFunc), String(RefPage),        *)
(* String(Field): each value's text is its identifier, and Empty's text is *)
(* empty.                                                                  *)
(***************************************************************************)
String_ErrFunc(func) ==
    CASE func = "vkCmdPipelineBarrier" ->
            <<"v", "k", "C", "m", "d", "P", "i", "p", "e", "l", "i", "n", "e",
              "B", "a", "r", "r", "i", "e", "r">>
      [] func = "vkQueueSubmit" ->
            <<"v", "k", "Q", "u", "e", "u", "e", "S", "u", "b", "m", "i", "t">>

String_RefPage(refpage) ==
    CASE refpage = "Empty" -> <<>>
      [] refpage = "VkImageMemoryBarrier" ->
            <<"V", "k", "I", "m", "a", "g", "e", "M", "e", "m", "o", "r", "y",
              "B", "a", "r", "r", "i", "e", "r">>

String_Field(field) ==
    CASE field = "Empty" -> <<>>
      [] field = "pImageMemoryBarriers" ->
            <<"p", "I", "m", "a", "g", "e", "M", "e", "m", "o", "r", "y",
              "B", "a", "r", "r", "i", "e", "r", "s">>
      [] field = "srcAccessMask" ->
            <<"s", "r", "c", "A", "c", "c", "e", "s", "s", "M", "a", "s", "k">>

(***************************************************************************)
(* operator<<(uint32_t): the decimal digits, most significant first.       *)
(***************************************************************************)
DigitChars == <<"0", "1", "2", "3", "4", "5", "6", "7", "8", "9">>

RECURSIVE ToDecimal(_)
ToDecimal(n) ==
    IF n < 10 THEN <<DigitChars[n + 1]>>
    ELSE ToDecimal(n \div 10) \o <<DigitChars[(n % 10) + 1]>>

(***************************************************************************)
(* struct CoreErrorLocation                                                *)
(***************************************************************************)
Path(f, i) == [field |-> f, index |-> i]

CoreErrorLocation(func, ref, f, i) ==
    [func_name |-> func, refpage |-> ref, field_name |-> f, index |-> i,
     field_path |-> <<>>]

StringFuncName(loc) == String_ErrFunc(loc.func_name)
StringRefPage(loc) == String_RefPage(loc.refpage)
StringField(loc) == String_Field(loc.field_name)

\* "[" << index << "]" when the index is not kNoIndex
IndexText(index) ==
    IF index # kNoIndex THEN <<"[">> \o ToDecimal(index) \o <<"]">> ELSE <<>>

\* the loop of Message() over field_path
RECURSIVE PathText(_)
PathText(field_path) ==
    IF field_path = <<>> THEN <<>>
    ELSE LET f == Head(field_path)
         IN  String_Field(f.field) \o IndexText(f.index) \o <<".">>
                \o PathText(Tail(field_path))

\* Message() writing the "." of a path step before the step instead of after it
RECURSIVE PathTextSepBefore(_)
PathTextSepBefore(field_path) ==
    IF field_path = <<>> THEN <<>>
    ELSE LET f == Head(field_path)
         IN  <<".">> \o String_Field(f.field) \o IndexText(f.index)
                \o PathTextSepBefore(Tail(field_path))

MessageSepBefore(loc) ==
    StringFuncName(loc) \o <<"(", ")", ":", " ">>
        \o PathTextSepBefore(loc.field_path)
        \o String_Field(loc.field_name)
        \o IndexText(loc.index)

\* Message() writing a "." after the current field as after a path step
MessageTrailingDot(loc) ==
    StringFuncName(loc) \o <<"(", ")", ":", " ">>
        \o PathText(loc.field_path)
        \o String_Field(loc.field_name)
        \o IndexText(loc.index)
        \o <<".">>

\* Message() writing the current index without the test against kNoIndex
MessageAlwaysIndex(loc) ==
    StringFuncName(loc) \o <<"(", ")", ":", " ">>
        \o PathText(loc.field_path)
        \o String_Field(loc.field_name)
        \o <<"[">> \o ToDecimal(loc.index) \o <<"]">>

\* Message() testing "if (index)" instead of "if (index != kNoIndex)"
IndexTextTruthy(index) ==
    IF index # 0 THEN <<"[">> \o ToDecimal(index) \o <<"]">> ELSE <<>>

RECURSIVE PathTextTruthy(_)
PathTextTruthy(field_path) ==
    IF field_path = <<>> THEN <<>>
    ELSE LET f == Head(field_path)
         IN  String_Field(f.field) \o IndexTextTruthy(f.index) \o <<".">>
                \o PathTextTruthy(Tail(field_path))

MessageTruthyIndex(loc) ==
    StringFuncName(loc) \o <<"(", ")", ":", " ">>
        \o PathTextTruthy(loc.field_path)
        \o String_Field(loc.field_name)
        \o IndexTextTruthy(loc.index)

Message(loc) ==
    StringFuncName(loc) \o <<"(", ")", ":", " ">>
        \o PathText(loc.field_path)
        \o String_Field(loc.field_name)
        \o IndexText(loc.index)

\* dot() pushing its step onto the field_path of the object it is called on
dotPushOnThis(this, sub_field, sub_index) ==
    LET grown == IF this.field_name # "Empty"
                 THEN [this EXCEPT !.field_path =
                           Append(@, Path(this.field_name, this.index))]
                 ELSE this
        constructed == CoreErrorLocation(this.func_name, this.refpage, "Empty", kNoIndex)
        copied == [constructed EXCEPT !.field_path = grown.field_path]
    IN  [this |-> grown,
         result |-> [copied EXCEPT !.field_name = sub_field, !.index = sub_index]]

\* dot() constructing its result without the reference page
dotDropsRefPage(this, sub_field, sub_index) ==
    LET constructed == CoreErrorLocation(this.func_name, "Empty", "Empty", kNoIndex)
        copied == [constructed EXCEPT !.field_path = this.field_path]
        pushed == IF this.field_name # "Empty"
                  THEN [copied EXCEPT !.field_path =
                            Append(@, Path(this.field_name, this.index))]
                  ELSE copied
    IN  [this |-> this,
         result |-> [pushed EXCEPT !.field_name = sub_field, !.index = sub_index]]

\* dot() pushing its step without the test against Field::Empty
dotAlwaysPush(this, sub_field, sub_index) ==
    LET constructed == CoreErrorLocation(this.func_name, this.refpage, "Empty", kNoIndex)
        copied == [constructed EXCEPT !.field_path = this.field_path]
        pushed == [copied EXCEPT !.field_path =
                       Append(@, Path(this.field_name, this.index))]
    IN  [this |-> this,
         result |-> [pushed EXCEPT !.field_name = sub_field, !.index = sub_index]]

\* dot() pushing its step when there is a field or an index
dotPushIndexed(this, sub_field, sub_index) ==
    LET constructed == CoreErrorLocation(this.func_name, this.refpage, "Empty", kNoIndex)
        copied == [constructed EXCEPT !.field_path = this.field_path]
        pushed == IF this.field_name # "Empty" \/ this.index # kNoIndex
                  THEN [copied EXCEPT !.field_path =
                            Append(@, Path(this.field_name, this.index))]
                  ELSE copied
    IN  [this |-> this,
         result |-> [pushed EXCEPT !.field_name = sub_field, !.index = sub_index]]

\* dot() putting its step in front of the copied field_path
dotPushFront(this, sub_field, sub_index) ==
    LET constructed == CoreErrorLocation(this.func_name, this.refpage, "Empty", kNoIndex)
        copied == [constructed EXCEPT !.field_path = this.field_path]
        pushed == IF this.field_name # "Empty"
                  THEN [copied EXCEPT !.field_path =
                            <<Path(this.field_name, this.index)>> \o @]
                  ELSE copied
    IN  [this |-> this,
         result |-> [pushed EXCEPT !.field_name = sub_field, !.index = sub_index]]

\* dot(): the object it was called on after the call, and the object returned
dot(this, sub_field, sub_index) ==
    LET constructed == CoreErrorLocation(this.func_name, this.refpage, "Empty", kNoIndex)
        copied == [constructed EXCEPT !.field_path = this.field_path]
        pushed == IF this.field_name # "Empty"
                  THEN [copied EXCEPT !.field_path =
                            Append(@, Path(this.field_name, this.index))]
                  ELSE copied
    IN  [this |-> this,
         result |-> [pushed EXCEPT !.field_name = sub_field, !.index = sub_index]]

(***************************************************************************)
(* The validation routine.                                                 *)
(***************************************************************************)
Init ==
    /\ pc = "walking"
    /\ root \in [func : ErrFuncs, ref : RefPages, f : Fields, i : CtorIndices]
    /\ base = CoreErrorLocation(root.func, root.ref, root.f, root.i)
    /\ entry = base
    /\ descents = IF root.f = "Empty" /\ root.i = kNoIndex THEN <<"chain", <<>> >>
                  ELSE <<"other", <<>> >>
    /\ first = <<>> /\ firstArgs = <<>>
    /\ second = <<>> /\ secondArgs = <<>> /\ secondFrom = "none"
    /\ rendered = <<>>
    /\ adapter = <<>> /\ heldAt = <<>> /\ view = <<>>

\* the length of the field_path dot() gives its result
ResultPathLen(loc) == Len(loc.field_path) + (IF loc.field_name # "Empty" THEN 1 ELSE 0)

\* X = base.dot(f, i)
DotFirst(maxPath, f, i) ==
    /\ pc = "walking"
    /\ first = <<>>
    /\ ResultPathLen(base) <= maxPath
    /\ LET r == dot(base, f, i)
       IN  /\ base' = r.this
           /\ first' = <<r.result>>
    /\ firstArgs' = <<[f |-> f, i |-> i]>>
    /\ UNCHANGED <<pc, root, descents, entry, second, secondArgs, secondFrom,
                   rendered, adapter, heldAt, view>>

\* Y = base.dot(f, i), with X alive
DotSecond(maxPath, f, i) ==
    /\ pc = "walking"
    /\ first # <<>>
    /\ second = <<>>
    /\ ResultPathLen(base) <= maxPath
    /\ LET r == dot(base, f, i)
       IN  /\ base' = r.this
           /\ second' = <<r.result>>
    /\ secondArgs' = <<[f |-> f, i |-> i]>>
    /\ secondFrom' = "base"
    /\ UNCHANGED <<pc, root, descents, entry, first, firstArgs,
                   rendered, adapter, heldAt, view>>

\* Y = X.dot(f, i)
DotChain(maxPath, f, i) ==
    /\ pc = "walking"
    /\ first # <<>>
    /\ second = <<>>
    /\ ResultPathLen(first[1]) <= maxPath
    /\ LET r == dot(first[1], f, i)
       IN  /\ first' = <<r.this>>
           /\ second' = <<r.result>>
    /\ secondArgs' = <<[f |-> f, i |-> i]>>
    /\ secondFrom' = "first"
    /\ UNCHANGED <<pc, root, descents, base, entry, firstArgs,
                   rendered, adapter, heldAt, view>>

\* the dot() arguments that lead from base to the chosen child
StepsTo(which) ==
    IF which = "first" THEN firstArgs
    ELSE IF secondFrom = "first" THEN firstArgs \o secondArgs
    ELSE secondArgs

Extend(d, steps) ==
    IF d[1] = "chain" /\ \A k \in 1..Len(steps) : steps[k].f # "Empty"
    THEN <<"chain", d[2] \o steps>>
    ELSE <<"other", <<>> >>

\* the routine passes a child Location down the call chain; the callee holds it
Enter(which) ==
    /\ pc = "walking"
    /\ (IF which = "first" THEN first ELSE second) # <<>>
    /\ LET child == IF which = "first" THEN first[1] ELSE second[1]
       IN  /\ base' = child
           /\ entry' = child
    /\ descents' = Extend(descents, StepsTo(which))
    /\ first' = <<>> /\ firstArgs' = <<>>
    /\ second' = <<>> /\ secondArgs' = <<>> /\ secondFrom' = "none"
    /\ UNCHANGED <<pc, root, rendered, adapter, heldAt, view>>

\* the routine renders the Location it holds and returns
Report ==
    /\ pc = "walking"
    /\ rendered' = <<Message(base)>>
    /\ pc' = "reported"
    /\ first' = <<>> /\ firstArgs' = <<>>
    /\ second' = <<>> /\ secondArgs' = <<>> /\ secondFrom' = "none"
    /\ UNCHANGED <<root, descents, base, entry, adapter, heldAt, view>>

(***************************************************************************)
(* struct CoreErrorLocationVuidAdapter<VuidFunctor>                        *)
(***************************************************************************)
String_Prefix(prefix) ==
    CASE prefix = "VUID" -> <<"V", "U", "I", "D">>
      [] prefix = "UNASSIGNED" ->
            <<"U", "N", "A", "S", "S", "I", "G", "N", "E", "D">>

\* the functor the adapter is instantiated with: VUID-{refpage}-{field_name}
VuidFunctor(functor, loc) ==
    String_Prefix(functor.prefix) \o <<"-">> \o StringRefPage(loc)
        \o <<"-">> \o StringField(loc)

CoreErrorLocationVuidAdapter(loc_, args) ==
    [loc |-> loc_, vuid_functor |-> [prefix |-> args]]

\* FuncName() reading the reference page instead of the function
FuncNameOfRefPage(a) == StringRefPage(a.loc)

FuncName(a) == StringFuncName(a.loc)

Vuid(a) == VuidFunctor(a.vuid_functor, a.loc)

MakeAdapter(args) ==
    /\ pc = "walking"
    /\ adapter = <<>>
    /\ adapter' = <<CoreErrorLocationVuidAdapter(base, args)>>
    /\ heldAt' = <<base>>
    /\ UNCHANGED <<pc, root, descents, base, entry, first, firstArgs, second,
                   secondArgs, secondFrom, rendered, view>>

CallFuncName ==
    /\ pc = "walking"
    /\ adapter # <<>>
    /\ view' = <<[call |-> "FuncName", text |-> FuncName(adapter[1])]>>
    /\ UNCHANGED <<pc, root, descents, base, entry, first, firstArgs, second,
                   secondArgs, secondFrom, rendered, adapter, heldAt>>

CallVuid ==
    /\ pc = "walking"
    /\ adapter # <<>>
    /\ view' = <<[call |-> "Vuid", text |-> Vuid(adapter[1])]>>
    /\ UNCHANGED <<pc, root, descents, base, entry, first, firstArgs, second,
                   secondArgs, secondFrom, rendered, adapter, heldAt>>

(***************************************************************************)
(* Specifications.                                                         *)
(***************************************************************************)
\* the walk with sibling and chained descents
Next ==
    \/ \E f \in Fields, i \in Indices : DotFirst(MaxPath, f, i)
    \/ \E f \in Fields, i \in Indices : DotSecond(MaxPath, f, i)
    \/ \E f \in Fields, i \in Indices : DotChain(MaxPath, f, i)
    \/ \E which \in {"first", "second"} : Enter(which)
    \/ Report

Spec == Init /\ [][Next]_vars

\* the walk down a single chain, past the inline slots of field_path
NextDeep ==
    \/ \E f \in Fields, i \in Indices : DotFirst(MaxDeepPath, f, i)
    \/ Enter("first")
    \/ Report

SpecDeep == Init /\ [][NextDeep]_vars

\* the walk with an adapter constructed on the way
NextAdapter ==
    \/ \E f \in Fields, i \in Indices : DotFirst(MaxAdapterPath, f, i)
    \/ Enter("first")
    \/ \E args \in FunctorArgs : MakeAdapter(args)
    \/ CallFuncName
    \/ CallVuid

SpecAdapter == Init /\ [][NextAdapter]_vars

(***************************************************************************)
(* Reading a rendering back.                                               *)
(***************************************************************************)
\* the Locations alive in the routine
LiveLocations ==
    {base} \cup {first[k] : k \in DOMAIN first} \cup {second[k] : k \in DOMAIN second}

\* the full path of a Location: its ancestry, then its current field
FullPath(loc) == loc.field_path \o <<[field |-> loc.field_name, index |-> loc.index]>>

Count(ch, t) == Cardinality({k \in DOMAIN t : t[k] = ch})

\* the text after "<function name>(): "
BodyOf(t, func) == SubSeq(t, Len(String_ErrFunc(func)) + 5, Len(t))

IsDigit(c) == \E d \in 0..9 : DigitChars[d + 1] = c

DigitValue(c) == CHOOSE d \in 0..9 : DigitChars[d + 1] = c

RECURSIVE ParseDecimal(_)
ParseDecimal(ds) ==
    IF ds = <<>> THEN 0
    ELSE ParseDecimal(SubSeq(ds, 1, Len(ds) - 1)) * 10 + DigitValue(ds[Len(ds)])

FirstDot(t) == CHOOSE k \in DOMAIN t : t[k] = "." /\ \A j \in 1..(k - 1) : t[j] # "."

\* the pieces of a text between its "." characters
RECURSIVE SplitAtDots(_)
SplitAtDots(t) ==
    IF \A k \in DOMAIN t : t[k] # "." THEN <<t>>
    ELSE LET k == FirstDot(t)
         IN  <<SubSeq(t, 1, k - 1)>> \o SplitAtDots(SubSeq(t, k + 1, Len(t)))

\* a piece is the step's field name, then nothing for kNoIndex and "[v]" with
\* v the index in decimal otherwise
SegmentShows(seg, step) ==
    LET name == String_Field(step.field)
        rest == SubSeq(seg, Len(name) + 1, Len(seg))
        digits == SubSeq(rest, 2, Len(rest) - 1)
    IN  /\ Len(seg) >= Len(name)
        /\ SubSeq(seg, 1, Len(name)) = name
        /\ IF step.index = kNoIndex THEN rest = <<>>
           ELSE /\ Len(rest) >= 3
                /\ rest[1] = "["
                /\ rest[Len(rest)] = "]"
                /\ \A k \in DOMAIN digits : IsDigit(digits[k])
                /\ Len(digits) = 1 \/ digits[1] # "0"
                /\ ParseDecimal(digits) = step.index

\* the text of one descent of a chain, and of the chain joined by "."
StepText(step) ==
    String_Field(step.f)
        \o (IF step.i = kNoIndex THEN <<>> ELSE <<"[">> \o ToDecimal(step.i) \o <<"]">>)

RECURSIVE JoinSteps(_)
JoinSteps(steps) ==
    IF steps = <<>> THEN <<>>
    ELSE IF Len(steps) = 1 THEN StepText(steps[1])
    ELSE StepText(steps[1]) \o <<".">> \o JoinSteps(Tail(steps))

(***************************************************************************)
(* The claims.                                                             *)
(***************************************************************************)

\* C1: dot() never mutates the Location it is called on, and its results are
\* independent: with X = L.dot(A, iA) and then Y = L.dot(B, iB) (or Y = X.dot(B, iB))
\* computed, L is what the routine received, and X and Y are what the calls
\* yield from L as it was received, whatever else was computed.
C1_DotDoesNotMutate ==
    /\ base = entry
    /\ first # <<>> =>
          first[1] = dot(entry, firstArgs[1].f, firstArgs[1].i).result
    /\ secondFrom = "base" =>
          second[1] = dot(entry, secondArgs[1].f, secondArgs[1].i).result
    /\ secondFrom = "first" =>
          second[1] = dot(dot(entry, firstArgs[1].f, firstArgs[1].i).result,
                          secondArgs[1].f, secondArgs[1].i).result

C1_Witness ==
    /\ secondFrom = "base"
    /\ first[1] # second[1]
    /\ base.field_name # "Empty"
    /\ base.field_path # <<>>

\* C2, as stated: every rendering has exactly one "." between consecutive
\* fields of the full path and never ends with ".".
C2_Original ==
    rendered # <<>> =>
        LET t == rendered[1]
        IN  /\ Count(".", t) = Len(base.field_path)
            /\ \A k \in 1..(Len(t) - 1) : ~(t[k] = "." /\ t[k + 1] = ".")
            /\ t[Len(t)] # "."

\* C2, amended: every rendering has exactly one "." after each ancestry step,
\* none before the first field and no two in a row; it ends with "." exactly
\* when the ancestry is not empty and the current field is Empty with no index.
C2_Separators ==
    rendered # <<>> =>
        LET t == rendered[1]
            body == BodyOf(t, base.func_name)
        IN  /\ Count(".", t) = Len(base.field_path)
            /\ \A k \in 1..(Len(t) - 1) : ~(t[k] = "." /\ t[k + 1] = ".")
            /\ body = <<>> \/ body[1] # "."
            /\ t[Len(t)] = "." <=>
                  /\ base.field_path # <<>>
                  /\ base.field_name = "Empty"
                  /\ base.index = kNoIndex

C2_Witness ==
    /\ rendered # <<>>
    /\ Len(base.field_path) >= 2
    /\ base.field_name # "Empty"
    /\ Count(".", rendered[1]) = 2

\* C3, as stated: a Location with empty ancestry and current field Empty
\* renders as the function name followed by "(): ", whatever its index.
C3_Original ==
    (rendered # <<>> /\ base.field_path = <<>> /\ base.field_name = "Empty") =>
        rendered[1] = String_ErrFunc(base.func_name) \o <<"(", ")", ":", " ">>

\* C3, amended: a Location with empty ancestry and current field Empty renders
\* as the function name followed by "(): " when its index is kNoIndex, and as
\* that text followed by "[v]" when it carries the index v.
C3_NoField ==
    (rendered # <<>> /\ base.field_path = <<>> /\ base.field_name = "Empty") =>
        LET prefix == String_ErrFunc(base.func_name) \o <<"(", ")", ":", " ">>
        IN  /\ base.index = kNoIndex => rendered[1] = prefix
            /\ base.index # kNoIndex =>
                  rendered[1] = prefix \o <<"[">> \o ToDecimal(base.index) \o <<"]">>

C3_Witness ==
    /\ rendered # <<>>
    /\ base.field_path = <<>>
    /\ base.field_name = "Empty"
    /\ base.index = kNoIndex
    /\ rendered[1] = <<"v", "k", "Q", "u", "e", "u", "e", "S", "u", "b", "m", "i", "t",
                       "(", ")", ":", " ">>

\* C4: every Location derived from the root by descents has the function and
\* the reference page the root was constructed with.
C4_IdentityKept ==
    \A loc \in LiveLocations :
        loc.func_name = root.func /\ loc.refpage = root.ref

C4_Witness ==
    /\ secondFrom = "first"
    /\ Len(second[1].field_path) >= 2
    /\ root.ref # "Empty"
    /\ first[1].refpage = root.ref

\* C5: no step of the ancestry of any Location has field Empty.
C5_NoEmptyStep ==
    \A loc \in LiveLocations :
        \A k \in DOMAIN loc.field_path : loc.field_path[k].field # "Empty"

C5_Witness ==
    /\ first # <<>>
    /\ base.field_name = "Empty"
    /\ base.field_path # <<>>
    /\ first[1].field_path = base.field_path

\* C6: L.dot(subField, subIndex) has current field subField and current index
\* subIndex; its ancestry is L's, steps in place, with (L.currentField,
\* L.currentIndex) appended as the last step when L.currentField is not Empty.
C6_DotResult ==
    first # <<>> =>
        LET X == first[1]
            n == Len(entry.field_path)
        IN  /\ X.field_name = firstArgs[1].f
            /\ X.index = firstArgs[1].i
            /\ \A k \in 1..n : X.field_path[k] = entry.field_path[k]
            /\ IF entry.field_name # "Empty"
               THEN /\ Len(X.field_path) = n + 1
                    /\ X.field_path[n + 1] =
                          [field |-> entry.field_name, index |-> entry.index]
               ELSE Len(X.field_path) = n

C6_Witness ==
    /\ first # <<>>
    /\ Len(first[1].field_path) > kInlineSlots
    /\ entry.field_name # "Empty"
    /\ entry.field_path[1] # entry.field_path[2]

\* the usage example of the header: the root and the two descents, rendered
C7_Scenario ==
    /\ rendered # <<>>
    /\ root.func = "vkCmdPipelineBarrier"
    /\ root.ref = "VkImageMemoryBarrier"
    /\ descents = <<"chain", <<[f |-> "pImageMemoryBarriers", i |-> 42],
                               [f |-> "srcAccessMask", i |-> kNoIndex]>> >>

\* C7: after a default root Location(F, R) and descents with non-Empty fields,
\* Message() is the name of F, "(): ", and the descents in order, each its
\* field name and "[i]" when it has an index, joined by single "."; so
\* Location(vkCmdPipelineBarrier, VkImageMemoryBarrier)
\* .dot(pImageMemoryBarriers, 42).dot(srcAccessMask) renders
\* "vkCmdPipelineBarrier(): pImageMemoryBarriers[42].srcAccessMask".
C7_ChainRendering ==
    /\ (rendered # <<>> /\ descents[1] = "chain") =>
          rendered[1] = String_ErrFunc(root.func) \o <<"(", ")", ":", " ">>
                            \o JoinSteps(descents[2])
    /\ C7_Scenario =>
          rendered[1] =
              <<"v", "k", "C", "m", "d", "P", "i", "p", "e", "l", "i", "n", "e",
                "B", "a", "r", "r", "i", "e", "r", "(", ")", ":", " ",
                "p", "I", "m", "a", "g", "e", "M", "e", "m", "o", "r", "y",
                "B", "a", "r", "r", "i", "e", "r", "s", "[", "4", "2", "]", ".",
                "s", "r", "c", "A", "c", "c", "e", "s", "s", "M", "a", "s", "k">>

C7_Witness == C7_Scenario /\ Len(base.field_path) = 1

\* C8: in a rendering, each step of the full path is its field name followed
\* by nothing when its index is kNoIndex and by "[v]", v the index in decimal,
\* otherwise; there are as many bracketed groups as steps with an index.
C8_IndexRendering ==
    rendered # <<>> =>
        LET t == rendered[1]
            steps == FullPath(base)
            segs == SplitAtDots(BodyOf(t, base.func_name))
            indexed == Cardinality({k \in DOMAIN steps : steps[k].index # kNoIndex})
        IN  /\ Len(segs) = Len(steps)
            /\ \A k \in DOMAIN steps : SegmentShows(segs[k], steps[k])
            /\ Count("[", t) = indexed
            /\ Count("]", t) = indexed

C8_Witness ==
    /\ rendered # <<>>
    /\ Len(base.field_path) = 2
    /\ base.field_path[1].index = 0
    /\ base.field_path[2].index = kNoIndex
    /\ base.index = 42
    /\ Count("[", rendered[1]) = 2

\* C9: the adapter holds its own copy of the Location it was constructed
\* from; FuncName() yields the text of that Location's function and Vuid() the
\* functor's result on it, whatever was descended or entered since.
C9_AdapterViews ==
    adapter # <<>> =>
        /\ adapter[1].loc = heldAt[1]
        /\ view # <<>> =>
              /\ view[1].call = "FuncName" =>
                    view[1].text = String_ErrFunc(heldAt[1].func_name)
              /\ view[1].call = "Vuid" =>
                    view[1].text = VuidFunctor(adapter[1].vuid_functor, heldAt[1])

C9_Witness ==
    /\ view # <<>>
    /\ view[1].call = "FuncName"
    /\ first # <<>>
    /\ base # heldAt[1]
    /\ heldAt[1].field_name # "Empty"

\* C10: a descent through an Empty sub-field leaves no trace:
\* L.dot(Empty, i).dot(X, j) equals L.dot(X, j) in every component, and the
\* index i is in no step of its ancestry.
C10_EmptyDescent ==
    (secondFrom = "first" /\ firstArgs[1].f = "Empty") =>
        /\ second[1] = dot(base, secondArgs[1].f, secondArgs[1].i).result
        /\ second[1].field_path =
              IF base.field_name # "Empty"
              THEN Append(base.field_path,
                          [field |-> base.field_name, index |-> base.index])
              ELSE base.field_path

C10_Witness ==
    /\ secondFrom = "first"
    /\ firstArgs[1].f = "Empty"
    /\ firstArgs[1].i = 42
    /\ secondArgs[1].f # "Empty"
    /\ base.field_name # "Empty"
    /\ base.index = kNoIndex

====
